---------------------------- MODULE Spec2Model ----------------------------
(***************************************************************************)
(* Model of controllers/productController.js (src/script_3.py:176-450):    *)
(* the product write path (createProduct, updateProduct,                   *)
(* createProductReview) over a document store, and the read path           *)
(* (getProducts).  A handler is split only at the awaits where it talks to *)
(* the store: the read (Product.findById) and the write (product.save()).  *)
(***************************************************************************)
EXTENDS Integers, Sequences, FiniteSets, TLC

(***************************************************************************)
(* JavaScript values.  Every value is a record with the same fields so     *)
(* that values of different JavaScript types can be compared.  A number is *)
(* the decimal m / 10^e, or NaN; a string is a sequence of characters.     *)
(***************************************************************************)
JV(t, nan, m, e, s, b) == [t |-> t, nan |-> nan, m |-> m, e |-> e, s |-> s, b |-> b]

Undefined == JV("undefined", FALSE, 0, 0, <<>>, FALSE)

NaN == JV("number", TRUE, 0, 0, <<>>, FALSE)

RECURSIVE Pow10(_)
Pow10(k) == IF k <= 0 THEN 1 ELSE 10 * Pow10(k - 1)

\* a decimal in canonical form: no trailing zero in the fraction
RECURSIVE Dec(_, _)
Dec(m, e) ==
  IF e > 0 /\ m % 10 = 0 THEN Dec(m \div 10, e - 1)
  ELSE JV("number", FALSE, m, e, <<>>, FALSE)

JNum(n) == Dec(n, 0)

JStr(s) == JV("string", FALSE, 0, 0, s, FALSE)

JBool(b) == JV("boolean", FALSE, 0, 0, <<>>, b)

\* an array or object literal; s names its content
JObj(s) == JV("object", FALSE, 0, 0, s, FALSE)

IsNaN(v) == v.t = "number" /\ v.nan

IsNum(v) == v.t = "number" /\ ~v.nan

IsInt(v) == IsNum(v) /\ v.e = 0

\* ECMAScript ToBoolean
Truthy(v) ==
  CASE v.t = "undefined" -> FALSE
    [] v.t = "null" -> FALSE
    [] v.t = "boolean" -> v.b
    [] v.t = "number" -> ~v.nan /\ v.m # 0
    [] v.t = "string" -> v.s # <<>>
    [] OTHER -> TRUE

\* a || b
Or(a, b) == IF Truthy(a) THEN a ELSE b

\* comparison and sum of two numbers that are not NaN
Max2(a, b) == IF a >= b THEN a ELSE b

Scaled(v, e) == v.m * Pow10(e - v.e)

NumLe(a, b) == Scaled(a, Max2(a.e, b.e)) <= Scaled(b, Max2(a.e, b.e))

NumAdd(a, b) ==
  IF IsNaN(a) \/ IsNaN(b) THEN NaN
  ELSE Dec(Scaled(a, Max2(a.e, b.e)) + Scaled(b, Max2(a.e, b.e)), Max2(a.e, b.e))

(***************************************************************************)
(* String to number conversions.  The strings of the model are built from  *)
(* digits, sign, point, blank and the letters a, b, c, so hexadecimal,     *)
(* exponent and Infinity literals do not arise.                            *)
(***************************************************************************)
Digits == {"0", "1", "2", "3", "4", "5", "6", "7", "8", "9"}

DigitVal(c) ==
  CASE c = "0" -> 0 [] c = "1" -> 1 [] c = "2" -> 2 [] c = "3" -> 3
    [] c = "4" -> 4 [] c = "5" -> 5 [] c = "6" -> 6 [] c = "7" -> 7
    [] c = "8" -> 8 [] c = "9" -> 9

\* index of the first character at or after i that is not a blank
RECURSIVE SkipBlanks(_, _)
SkipBlanks(s, i) ==
  IF i <= Len(s) /\ s[i] = " " THEN SkipBlanks(s, i + 1) ELSE i

\* number of consecutive digits of s starting at index i
RECURSIVE DigitRun(_, _)
DigitRun(s, i) ==
  IF i <= Len(s) /\ s[i] \in Digits THEN 1 + DigitRun(s, i + 1) ELSE 0

\* value of the k digits of s starting at index i
RECURSIVE DigitsValue(_, _, _)
DigitsValue(s, i, k) ==
  IF k = 0 THEN 0
  ELSE 10 * DigitsValue(s, i, k - 1) + DigitVal(s[i + k - 1])

HasSign(s, i) == i <= Len(s) /\ s[i] \in {"-", "+"}

SignAt(s, i) == IF i <= Len(s) /\ s[i] = "-" THEN -1 ELSE 1

\* the longest prefix of s from index i of the form digits[.digits] or
\* .digits: <<length, mantissa, exponent>>, length 0 when there is none
DecimalPrefix(s, i) ==
  LET k == DigitRun(s, i)
      dot == i + k <= Len(s) /\ s[i + k] = "."
      f == IF dot THEN DigitRun(s, i + k + 1) ELSE 0
  IN  IF k = 0 /\ f = 0 THEN <<0, 0, 0>>
      ELSE IF ~dot THEN <<k, DigitsValue(s, i, k), 0>>
      ELSE <<k + 1 + f,
             DigitsValue(s, i, k) * Pow10(f) + DigitsValue(s, i + k + 1, f), f>>

\* parseInt(v): v is a string or undefined
parseInt(v) ==
  IF v.t # "string" THEN NaN
  ELSE LET i == SkipBlanks(v.s, 1)
           j == IF HasSign(v.s, i) THEN i + 1 ELSE i
           k == DigitRun(v.s, j)
       IN  IF k = 0 THEN NaN
           ELSE JNum(SignAt(v.s, i) * DigitsValue(v.s, j, k))

\* parseFloat(v): v is a string or undefined
parseFloat(v) ==
  IF v.t # "string" THEN NaN
  ELSE LET i == SkipBlanks(v.s, 1)
           j == IF HasSign(v.s, i) THEN i + 1 ELSE i
           p == DecimalPrefix(v.s, j)
       IN  IF p[1] = 0 THEN NaN
           ELSE Dec(SignAt(v.s, i) * p[2], p[3])

RECURSIVE TrimRight(_)
TrimRight(s) ==
  IF s # <<>> /\ s[Len(s)] = " " THEN TrimRight(SubSeq(s, 1, Len(s) - 1)) ELSE s

\* Number(v)
ToNumber(v) ==
  CASE v.t = "undefined" -> NaN
    [] v.t = "null" -> JNum(0)
    [] v.t = "boolean" -> JNum(IF v.b THEN 1 ELSE 0)
    [] v.t = "number" -> v
    [] v.t = "string" ->
         LET s == TrimRight(v.s)
             i == SkipBlanks(s, 1)
             j == IF HasSign(s, i) THEN i + 1 ELSE i
             p == DecimalPrefix(s, j)
         IN  IF i > Len(s) THEN JNum(0)
             ELSE IF p[1] = 0 \/ j + p[1] <= Len(s) THEN NaN
             ELSE Dec(SignAt(s, i) * p[2], p[3])
    [] OTHER -> NaN

(***************************************************************************)
(* Bounds of the model.                                                    *)
(***************************************************************************)
MaxReqs == 3

MaxUsers == 2

MaxProducts == 1

Reqs == 1 .. MaxReqs

Users == 1 .. MaxUsers

\* the caller of the admin routes
Admin == CHOOSE u \in Users : TRUE

\* req.user.name of the authenticated caller
UserName(u) == <<"u", u>>

\* the categories Category.findById resolves
Categories == {<<"c", "1">>}

(***************************************************************************)
(* The quotient of line 427-429: a rational in lowest terms, or NaN.  The  *)
(* IEEE quotient of two such small numbers is equal exactly when the       *)
(* rationals are.                                                          *)
(***************************************************************************)
RECURSIVE Gcd(_, _)
Gcd(a, b) == IF b = 0 THEN a ELSE Gcd(b, a % b)

Abs(n) == IF n < 0 THEN -n ELSE n

Quot(n, d) ==
  LET g == Gcd(Abs(n), d)
  IN  [nan |-> FALSE, n |-> n \div g, d |-> d \div g]

QNaN == [nan |-> TRUE, n |-> 0, d |-> 1]

\* a / k for a number a and a positive integer k
NumDiv(a, k) == IF IsNaN(a) THEN QNaN ELSE Quot(a.m, Pow10(a.e) * k)

(***************************************************************************)
(* models/Product.js is not among the sources: the defaults of the derived *)
(* fields and the validation of a review's rating follow the data model    *)
(* (ratings and numOfReviews 0 when reviews is empty, status active,       *)
(* rating an integer 1-5).                                                 *)
(***************************************************************************)
SchemaDefaults ==
  [status |-> JStr(<<"a", "c", "t", "i", "v", "e">>),
   ratings |-> Quot(0, 1), numOfReviews |-> 0, reviews |-> <<>>]

SchemaRatingValid(v) == IsInt(v) /\ 1 <= v.m /\ v.m <= 5

UpdatableFields ==
  {"name", "description", "price", "discountPrice", "images", "category",
   "brand", "stock", "specifications", "tags", "featured", "status"}

\* a request body that supplies no field
EmptyBody == [f \in UpdatableFields |-> Undefined]

Body(fs) == [f \in UpdatableFields |-> IF f \in DOMAIN fs THEN fs[f] ELSE Undefined]

\* new Product({...}) of createProduct; createdAt is the time of creation
NewProduct(body, creator, now) ==
  [name |-> body.name, description |-> body.description, price |-> body.price,
   discountPrice |-> body.discountPrice, images |-> body.images,
   category |-> body.category, brand |-> body.brand, stock |-> body.stock,
   specifications |-> body.specifications, tags |-> body.tags,
   featured |-> body.featured, createdBy |-> creator, createdAt |-> now,
   status |-> SchemaDefaults.status, ratings |-> SchemaDefaults.ratings,
   numOfReviews |-> SchemaDefaults.numOfReviews,
   reviews |-> SchemaDefaults.reviews]

\* lines 356-367 of updateProduct, on the fetched document
ApplyUpdate(product, body) ==
  [product EXCEPT
     !.name = Or(body.name, @),
     !.description = Or(body.description, @),
     !.price = Or(body.price, @),
     !.discountPrice = Or(body.discountPrice, @),
     !.images = Or(body.images, @),
     !.category = Or(body.category, @),
     !.brand = Or(body.brand, @),
     !.stock = IF body.stock # Undefined THEN body.stock ELSE @,
     !.specifications = Or(body.specifications, @),
     !.tags = Or(body.tags, @),
     !.featured = IF body.featured # Undefined THEN body.featured ELSE @,
     !.status = Or(body.status, @)]

\* product.reviews.find(r => r.user.toString() === req.user._id.toString())
AlreadyReviewedMutant(product, user) == FALSE

AlreadyReviewed(product, user) ==
  \E i \in 1 .. Len(product.reviews) : product.reviews[i].user = user

\* the review object of lines 418-423
NewReview(user, rating, comment) ==
  [name |-> UserName(user), rating |-> ToNumber(rating), comment |-> comment,
   user |-> user]

\* reviews.reduce((acc, item) => item.rating + acc, 0)
RECURSIVE SumRatings(_)
SumRatings(reviews) ==
  IF reviews = <<>> THEN JNum(0)
  ELSE NumAdd(reviews[Len(reviews)].rating,
              SumRatings(SubSeq(reviews, 1, Len(reviews) - 1)))

\* lines 425-429: push, then recompute from the list after the push
PushReview(product, review) ==
  LET rs == Append(product.reviews, review)
  IN  [product EXCEPT !.reviews = rs, !.numOfReviews = Len(rs),
                      !.ratings = NumDiv(SumRatings(rs), Len(rs))]

(***************************************************************************)
(* product.save(): the document is written as a delta against what was     *)
(* fetched.  A path is $set when its value differs from the fetched one;   *)
(* an array push is a $push of the new element, with no condition on the   *)
(* stored version.                                                         *)
(***************************************************************************)
SetPaths(stored, fetched, doc) ==
  [f \in DOMAIN stored |->
     IF f # "reviews" /\ doc[f] # fetched[f] THEN doc[f] ELSE stored[f]]

SaveDelta(stored, fetched, doc) ==
  [SetPaths(stored, fetched, doc) EXCEPT
     !.reviews = stored.reviews \o
                 SubSeq(doc.reviews, Len(fetched.reviews) + 1, Len(doc.reviews))]

\* validation of the pushed reviews on save
SaveValid(fetched, doc) ==
  \A i \in Len(fetched.reviews) + 1 .. Len(doc.reviews) :
     SchemaRatingValid(doc.reviews[i].rating)

(***************************************************************************)
(* The read path: getProducts (lines 184-260).  req.query maps each        *)
(* parameter to a string, or to undefined when the request omits it.       *)
(***************************************************************************)
QueryKeys ==
  {"page", "limit", "category", "brand", "featured", "status", "minPrice",
   "maxPrice", "search", "sort"}

NoQuery == [k \in QueryKeys |-> Undefined]

DefaultPage == 1

DefaultLimit == 12

StrActive == JStr(<<"a", "c", "t", "i", "v", "e">>)

StrTrue == JStr(<<"t", "r", "u", "e">>)

FieldCreatedAt == <<"c", "r", "e", "a", "t", "e", "d", "A", "t">>

FieldPrice == <<"p", "r", "i", "c", "e">>

\* lines 186-187
PageOf(q) == Or(parseInt(q.page), JNum(DefaultPage))

LimitOf(q) == Or(parseInt(q.limit), JNum(DefaultLimit))

\* line 188
SkipOfMutant(page, limit) == page.m * limit.m

SkipOf(page, limit) == (page.m - 1) * limit.m

\* the query object of lines 190-222; a key the code does not set is undefined
FilterOf(q) ==
  [category |-> IF Truthy(q.category) THEN q.category ELSE Undefined,
   brand |-> IF Truthy(q.brand) THEN q.brand ELSE Undefined,
   featured |-> IF Truthy(q.featured) THEN JBool(q.featured = StrTrue) ELSE Undefined,
   status |-> IF Truthy(q.status) THEN q.status ELSE StrActive,
   gte |-> IF Truthy(q.minPrice) THEN parseFloat(q.minPrice) ELSE Undefined,
   lte |-> IF Truthy(q.maxPrice) THEN parseFloat(q.maxPrice) ELSE Undefined,
   text |-> IF Truthy(q.search) THEN q.search ELSE Undefined]

\* sortOptions of lines 224-234
SortOrder(q) == IF Truthy(q.sort) THEN (IF Head(q.sort.s) = "-" THEN -1 ELSE 1) ELSE -1

SortField(q) ==
  IF Truthy(q.sort)
    THEN (IF Head(q.sort.s) = "-" THEN Tail(q.sort.s) ELSE q.sort.s)
    ELSE FieldCreatedAt

PlanOf(q) ==
  [page |-> PageOf(q), limit |-> LimitOf(q),
   skip |-> SkipOf(PageOf(q), LimitOf(q)), filter |-> FilterOf(q),
   sortField |-> SortField(q), sortOrder |-> SortOrder(q)]

NoPlan == [PlanOf(NoQuery) EXCEPT !.sortOrder = 0]

NoResponse ==
  [status |-> "none", items |-> <<>>,
   pagination |-> [current |-> 0, pages |-> 0, total |-> 0,
                   hasNext |-> FALSE, hasPrev |-> FALSE]]

(***************************************************************************)
(* The write path.  products is the stored collection (a product's id is   *)
(* its index); req holds every request: where its handler stands, its      *)
(* inputs, the document it fetched and its response.                       *)
(***************************************************************************)
VARIABLES products, req, query, plan, response

vars == <<products, req, query, plan, response>>

Chars(w) == JStr(w)

\* request bodies of createProduct: one whose category exists, one whose
\* category does not
CreateBodies ==
  {Body([name |-> Chars(<<"p">>), description |-> Chars(<<"d">>),
         price |-> JNum(10), discountPrice |-> JNum(8),
         images |-> JObj(<<"i">>), category |-> Chars(<<"c", "1">>),
         brand |-> Chars(<<"b">>), stock |-> JNum(5),
         specifications |-> JObj(<<"s">>), tags |-> JObj(<<"t">>),
         featured |-> JBool(TRUE)]),
   Body([name |-> Chars(<<"p">>), price |-> JNum(10),
         category |-> Chars(<<"c", "9">>)])}

\* request bodies of updateProduct
UpdateBodies ==
  {EmptyBody,
   Body([price |-> JNum(0)]),
   Body([price |-> JNum(20), stock |-> JNum(0)]),
   Body([name |-> Chars(<<>>), featured |-> JBool(FALSE)])}

\* rating values of the request body of createProductReview
RatingInputs == {JNum(5), Chars(<<"4">>), JNum(7), Dec(25, 1), Undefined}

Comment == Chars(<<"o", "k">>)

IdleReq ==
  [pc |-> "idle", kind |-> "none", pid |-> 0, user |-> 0, rating |-> Undefined,
   body |-> EmptyBody, doc |-> <<>>, resp |-> "none", alone |-> TRUE]

InFlight(r) == req[r].pc = "fetched"

\* requests are numbered in the order they arrive
Arrives(r) == req[r].pc = "idle" /\ \A q \in Reqs : q < r => req[q].pc # "idle"

\* req once request r has arrived with record rec: the requests in flight
\* are no longer alone, nor is r if there is one
Arrive(r, rec) ==
  [q \in Reqs |->
     IF q = r THEN [rec EXCEPT !.alone = \A x \in Reqs : ~InFlight(x)]
     ELSE IF InFlight(q) THEN [req[q] EXCEPT !.alone = FALSE]
     ELSE req[q]]

Init ==
  /\ products = <<>>
  /\ req = [r \in Reqs |-> IdleReq]
  /\ query = NoQuery
  /\ plan = NoPlan
  /\ response = NoResponse

\* createProduct (lines 286-331)
CreateProduct(r, user, body) ==
  /\ Arrives(r)
  /\ IF body.category.s \in Categories
       THEN /\ Len(products) < MaxProducts
            /\ products' = Append(products, NewProduct(body, user, Len(products) + 1))
            /\ req' = Arrive(r, [IdleReq EXCEPT !.pc = "done", !.kind = "create",
                                   !.user = user, !.body = body,
                                   !.pid = Len(products) + 1,
                                   !.resp = "Created"])
       ELSE /\ products' = products
            /\ req' = Arrive(r, [IdleReq EXCEPT !.pc = "done", !.kind = "create",
                                   !.user = user, !.body = body,
                                   !.resp = "CategoryNotFound"])
  /\ UNCHANGED <<query, plan, response>>

\* Product.findById of updateProduct and createProductReview (lines 338, 407)
Fetch(r, kind, pid, user, rating, body) ==
  /\ Arrives(r)
  /\ req' = Arrive(r,
       IF pid \in DOMAIN products
         THEN [IdleReq EXCEPT !.pc = "fetched", !.kind = kind, !.pid = pid,
                 !.user = user, !.rating = rating, !.body = body,
                 !.doc = <<products[pid]>>]
         ELSE [IdleReq EXCEPT !.pc = "done", !.kind = kind, !.pid = pid,
                 !.user = user, !.rating = rating, !.body = body,
                 !.resp = "NotFound"])
  /\ UNCHANGED <<products, query, plan, response>>

UpdateFetch(r, pid, body) == Fetch(r, "update", pid, 0, Undefined, body)

ReviewFetch(r, pid, user, rating) == Fetch(r, "review", pid, user, rating, EmptyBody)

\* the handler returns: its document is dropped
Finish(r, resp) == [req EXCEPT ![r].pc = "done", ![r].resp = resp, ![r].doc = <<>>]

\* updateProduct from the fetched document to the response (lines 340-372)
UpdateSave(r) ==
  /\ InFlight(r) /\ req[r].kind = "update"
  /\ LET fetched == req[r].doc[1]
         doc == ApplyUpdate(fetched, req[r].body)
     IN  /\ products' = [products EXCEPT
                           ![req[r].pid] = SaveDelta(@, fetched, doc)]
         /\ req' = Finish(r, "Updated")
  /\ UNCHANGED <<query, plan, response>>

\* createProductReview from the fetched document to the response
\* (lines 409-439); an error thrown by save is answered by the catch
ReviewSave(r) ==
  /\ InFlight(r) /\ req[r].kind = "review"
  /\ LET fetched == req[r].doc[1]
         doc == PushReview(fetched,
                           NewReview(req[r].user, req[r].rating, Comment))
     IN  IF AlreadyReviewed(fetched, req[r].user)
           THEN /\ req' = Finish(r, "AlreadyReviewed")
                /\ products' = products
           ELSE IF SaveValid(fetched, doc)
             THEN /\ products' = [products EXCEPT
                                    ![req[r].pid] = SaveDelta(@, fetched, doc)]
                  /\ req' = Finish(r, "Created")
             ELSE /\ req' = Finish(r, "ServerError")
                  /\ products' = products
  /\ UNCHANGED <<query, plan, response>>

Next ==
  \/ \E r \in Reqs, b \in CreateBodies : CreateProduct(r, Admin, b)
  \/ \E r \in Reqs, p \in 1 .. MaxProducts, b \in UpdateBodies : UpdateFetch(r, p, b)
  \/ \E r \in Reqs : UpdateSave(r)
  \/ \E r \in Reqs, p \in 1 .. MaxProducts, u \in Users, x \in RatingInputs :
       ReviewFetch(r, p, u, x)
  \/ \E r \in Reqs : ReviewSave(r)

Spec == Init /\ [][Next]_vars

(***************************************************************************)
(* Properties of the write path.                                           *)
(***************************************************************************)
ReviewUsers(p) == {products[p].reviews[i].user : i \in 1 .. Len(products[p].reviews)}

\* C1: no product ever holds two reviews of the same user, however the
\* createProductReview requests interleave.
C1_OneReviewPerUser ==
  \A p \in DOMAIN products :
    \A i, j \in 1 .. Len(products[p].reviews) :
      i # j => products[p].reviews[i].user # products[p].reviews[j].user

\* the createProductReview requests that found product p
ReviewReqs(p) ==
  {r \in Reqs : req[r].kind = "review" /\ req[r].pid = p /\ req[r].resp # "NotFound"}

\* a rating the data model allows: an integer from 1 to 5
RatingInRange(v) == v.t = "number" /\ ~v.nan /\ v.e = 0 /\ v.m \in 1 .. 5

RECURSIVE SumOfRatings(_)
SumOfRatings(rs) ==
  IF rs = {} THEN 0
  ELSE LET r == CHOOSE x \in rs : TRUE
       IN  ToNumber(req[r].rating).m + SumOfRatings(rs \ {r})

\* the mean a / b of integers equals the stored quotient q
IsMean(q, a, b) == ~q.nan /\ q.n * b = a * q.d

\* C2: once N review requests of N distinct users on one product have all
\* completed, all have succeeded and the product holds N reviews,
\* numOfReviews = N and ratings = the mean of the N ratings.
C2_NoLostUpdate ==
  \A p \in DOMAIN products :
    LET R == ReviewReqs(p)
    IN  (/\ R # {}
         /\ \A r \in R : req[r].pc = "done" /\ RatingInRange(ToNumber(req[r].rating))
         /\ \A r, q \in R : r # q => req[r].user # req[q].user)
        => /\ \A r \in R : req[r].resp = "Created"
           /\ Len(products[p].reviews) = Cardinality(R)
           /\ products[p].numOfReviews = Cardinality(R)
           /\ IsMean(products[p].ratings, SumOfRatings(R), Cardinality(R))

RECURSIVE SumStored(_)
SumStored(reviews) ==
  IF reviews = <<>> THEN 0
  ELSE reviews[1].rating.m * Pow10(1 - reviews[1].rating.e) + SumStored(Tail(reviews))

\* C3: every stored product has numOfReviews = len(reviews) and ratings =
\* the mean of its reviews' ratings, both 0 when there is no review.
C3_DerivedFields ==
  \A p \in DOMAIN products :
    /\ products[p].numOfReviews = Len(products[p].reviews)
    /\ \A i \in 1 .. Len(products[p].reviews) :
         IsNum(products[p].reviews[i].rating) /\ products[p].reviews[i].rating.e <= 1
    /\ IF products[p].reviews = <<>>
         THEN products[p].ratings = [nan |-> FALSE, n |-> 0, d |-> 1]
         ELSE IsMean(products[p].ratings, SumStored(products[p].reviews),
                     10 * Len(products[p].reviews))

\* C4: a review request of a user who already has a review on the
\* product, with no other request in flight during the call, is answered
\* "already reviewed" and leaves the stored products as they were.
C4_DuplicateRejected ==
  [][\A r \in Reqs :
       (/\ req[r].kind = "review" /\ req[r].pc = "fetched" /\ req[r].alone
        /\ req'[r].pc = "done"
        /\ \E i \in 1 .. Len(products[req[r].pid].reviews) :
             products[req[r].pid].reviews[i].user = req[r].user)
       => req'[r].resp = "AlreadyReviewed" /\ products' = products]_vars

C4_Witness ==
  \E r \in Reqs :
    /\ req[r].kind = "review" /\ req[r].alone /\ req[r].resp = "AlreadyReviewed"
    /\ products[req[r].pid].numOfReviews = 1
    /\ ReviewUsers(req[r].pid) = {req[r].user}

\* C5: a review request whose rating is not an integer in 1..5 is answered
\* InvalidInput and stores nothing: every stored review has a rating in
\* 1..5 and ratings stays within 0..5.
C5_RatingValidated ==
  /\ \A r \in Reqs :
       (/\ req[r].kind = "review" /\ req[r].pc = "done"
        /\ req[r].resp \notin {"NotFound", "AlreadyReviewed"}
        /\ ~RatingInRange(ToNumber(req[r].rating)))
       => req[r].resp = "InvalidInput"
  /\ \A p \in DOMAIN products :
       /\ \A i \in 1 .. Len(products[p].reviews) :
            RatingInRange(products[p].reviews[i].rating)
       /\ ~products[p].ratings.nan
       /\ 0 <= products[p].ratings.n
       /\ products[p].ratings.n <= 5 * products[p].ratings.d

\* C10: a successful updateProduct stores every field the request supplies
\* (also 0, false and the empty string) and leaves every other field as it
\* was.
C10_PartialUpdate ==
  [][\A r \in Reqs :
       (req[r].kind = "update" /\ req[r].pc = "fetched" /\ req'[r].resp = "Updated")
       => \A f \in UpdatableFields :
            products'[req[r].pid][f] =
              IF req[r].body[f] # Undefined THEN req[r].body[f]
              ELSE products[req[r].pid][f]]_vars

(***************************************************************************)
(* The store's side of Product.find(query).sort().skip().limit() and       *)
(* countDocuments(query) (lines 237-245).                                  *)
(***************************************************************************)
Lower(c) == CASE c = "A" -> "a" [] c = "B" -> "b" [] c = "C" -> "c" [] OTHER -> c

\* new RegExp(pattern, 'i').test(s), for patterns of literal characters
\* and the wildcard "."
RegExpTest(pattern, s) ==
  \E i \in 1 .. Len(s) - Len(pattern) + 1 :
    \A k \in 1 .. Len(pattern) :
      pattern[k] = "." \/ Lower(pattern[k]) = Lower(s[i + k - 1])

LowerSeq(s) == [i \in 1 .. Len(s) |-> Lower(s[i])]

\* $text: the term is a word of an indexed field (the fields of the model
\* hold one word each)
TextMatch(term, product) ==
  \E f \in {"name", "description"} :
    product[f].t = "string" /\ LowerSeq(product[f].s) = LowerSeq(term)

Matches(filter, product) ==
  /\ filter.category # Undefined => product.category = filter.category
  /\ filter.brand # Undefined =>
       product.brand.t = "string" /\ RegExpTest(filter.brand.s, product.brand.s)
  /\ filter.featured # Undefined => product.featured = filter.featured
  /\ product.status = filter.status
  /\ filter.gte # Undefined => IsNum(product.price) /\ NumLe(filter.gte, product.price)
  /\ filter.lte # Undefined => IsNum(product.price) /\ NumLe(product.price, filter.lte)
  /\ filter.text # Undefined => TextMatch(filter.text.s, product)

Matching(filter) == {i \in DOMAIN products : Matches(filter, products[i])}

SortKey(product, field) ==
  IF field = FieldPrice THEN product.price ELSE JNum(product.createdAt)

\* a before b in the order the sort asks for
InOrder(a, b, field, order) ==
  IF order = 1 THEN NumLe(SortKey(a, field), SortKey(b, field))
  ELSE NumLe(SortKey(b, field), SortKey(a, field))

\* the orders in which the store may return the ids of set S: equal keys
\* come in any order
SortedOrders(S, field, order) ==
  {o \in [1 .. Cardinality(S) -> S] :
     /\ \A i, j \in DOMAIN o : i # j => o[i] # o[j]
     /\ \A i, j \in DOMAIN o :
          i < j => InOrder(products[o[i]], products[o[j]], field, order)}

Min2(a, b) == IF a <= b THEN a ELSE b

\* Math.ceil(a / b) for a >= 0 and b # 0
Ceil(a, b) == IF b > 0 THEN (a + b - 1) \div b ELSE -(a \div (-b))

\* the query is cast against the schema: NaN is no Number
CastFails(filter) == IsNaN(filter.gte) \/ IsNaN(filter.lte)

\* the response of lines 237-259 when the store returns the matching
\* products in order o: a rejected query (a cast error, a negative skip) is
\* answered by the catch; a negative limit is taken by its absolute value
Respond(pl, o) ==
  IF CastFails(pl.filter) \/ pl.skip < 0
    THEN [NoResponse EXCEPT !.status = "ServerError"]
    ELSE LET total == Len(o)
             pages == Ceil(total, pl.limit.m)
         IN  [status |-> "OK",
              items |-> SubSeq(o, pl.skip + 1, Min2(total, pl.skip + Abs(pl.limit.m))),
              pagination |-> [current |-> pl.page.m, pages |-> pages,
                              total |-> total, hasNext |-> pl.page.m < pages,
                              hasPrev |-> pl.page.m > 1]]

\* getProducts
GetProducts ==
  /\ response = NoResponse
  /\ LET pl == PlanOf(query)
         S == IF CastFails(pl.filter) THEN {} ELSE Matching(pl.filter)
     IN  /\ plan' = pl
         /\ \E o \in SortedOrders(S, pl.sortField, pl.sortOrder) :
              response' = Respond(pl, o)
  /\ UNCHANGED <<products, req, query>>

(***************************************************************************)
(* The catalogue the read path is checked on: products as createProduct    *)
(* and updateProduct leave them.                                           *)
(***************************************************************************)
CatalogSize == 4

CatalogRow(i) ==
  CASE i % 6 = 1 -> <<JNum(100), JNum(80), <<"A", "b">>, <<"c", "1">>, TRUE, <<"a", "c", "t", "i", "v", "e">>>>
    [] i % 6 = 2 -> <<JNum(50), Undefined, <<"a", "c">>, <<"c", "1">>, FALSE, <<"a", "c", "t", "i", "v", "e">>>>
    [] i % 6 = 3 -> <<Dec(755, 1), JNum(40), <<"B">>, <<"c", "1">>, TRUE, <<"i", "n", "a", "c", "t", "i", "v", "e">>>>
    [] i % 6 = 4 -> <<JNum(50), Undefined, <<"b", "a">>, <<"c", "2">>, FALSE, <<"a", "c", "t", "i", "v", "e">>>>
    [] i % 6 = 5 -> <<JNum(90), JNum(60), <<"c">>, <<"c", "1">>, FALSE, <<"a", "c", "t", "i", "v", "e">>>>
    [] OTHER -> <<JNum(50), Undefined, <<"A", "b">>, <<"c", "2">>, TRUE, <<"d", "i", "s", "c", "o", "n", "t", "i", "n", "u", "e", "d">>>>

CatalogProduct(i) ==
  LET row == CatalogRow(i)
  IN  ApplyUpdate(
        NewProduct(Body([name |-> JStr(<<"p">>), description |-> JStr(<<"d">>),
                         price |-> row[1], discountPrice |-> row[2],
                         brand |-> JStr(row[3]), category |-> JStr(row[4]),
                         stock |-> JNum(5), featured |-> JBool(row[5])]),
                   Admin, i),
        Body([status |-> JStr(row[6])]))

Catalog == [i \in 1 .. CatalogSize |-> CatalogProduct(i)]

Params(ws) == {Undefined} \cup {JStr(w) : w \in ws}

\* the parameter bags of the requests
Queries ==
  [page : Params({<<"1">>, <<"2">>, <<"-", "1">>, <<"0">>, <<"a">>}),
   limit : Params({<<"1">>, <<"2">>, <<"-", "1">>, <<"2", "a">>, <<"1", "0", "0", "0">>}),
   category : Params({<<"c", "1">>}),
   brand : Params({<<"a">>, <<".">>}),
   featured : Params({<<"t", "r", "u", "e">>, <<"f", "a", "l", "s", "e">>}),
   status : Params({<<"i", "n", "a", "c", "t", "i", "v", "e">>}),
   minPrice : Params({<<"5", "0">>, <<"a">>}),
   maxPrice : Params({<<"9", "0">>, <<"7", "5", ".", "5">>}),
   search : Params({<<"p">>}),
   sort : Params({FieldPrice, <<"-">> \o FieldPrice, <<"-">> \o FieldCreatedAt})]

QInit ==
  /\ products = Catalog
  /\ req = [r \in Reqs |-> IdleReq]
  /\ query \in Queries
  /\ plan = NoPlan
  /\ response = NoResponse

QNext == GetProducts

QuerySpec == QInit /\ [][QNext]_vars

(***************************************************************************)
(* Properties of the read path.                                            *)
(***************************************************************************)
Present(v) == v # Undefined

\* the whole string is a decimal numeral
Numeral(v) == v.t = "string" /\ v.s # <<>> /\ ~IsNaN(ToNumber(v))

Malformed(v) == Present(v) /\ ~Numeral(v)

\* a string of digits only, and the natural number it writes
Natural(v) == v.t = "string" /\ v.s # <<>> /\ \A i \in 1 .. Len(v.s) : v.s[i] \in Digits

NatOf(v) == DigitsValue(v.s, 1, Len(v.s))

\* absent, or a natural number >= 1
ValidCount(v) == ~Present(v) \/ (Natural(v) /\ NatOf(v) >= 1)

Responded == response # NoResponse

\* C6: a malformed page, limit, minPrice or maxPrice is treated as absent:
\* page and limit take their defaults, a malformed price bound adds no
\* predicate, no NaN reaches the store and the request is not answered by
\* a server error.
C6_MalformedTreatedAsAbsent ==
  Responded =>
    /\ Malformed(query.page) => plan.page = JNum(1)
    /\ Malformed(query.limit) => plan.limit = JNum(12)
    /\ Malformed(query.minPrice) => plan.filter.gte = Undefined
    /\ Malformed(query.maxPrice) => plan.filter.lte = Undefined
    /\ ~IsNaN(plan.filter.gte) /\ ~IsNaN(plan.filter.lte)
    /\ ~IsNaN(plan.page) /\ ~IsNaN(plan.limit)
    /\ (ValidCount(query.page) \/ Malformed(query.page))
       /\ (ValidCount(query.limit) \/ Malformed(query.limit))
       => response.status = "OK"

\* C7: the page plan is bounded: page >= 1, skip >= 0 and
\* 1 <= limit <= a fixed maximum (100).
C7_BoundedPagePlan ==
  Responded =>
    /\ plan.page.m >= 1
    /\ plan.skip >= 0
    /\ 1 <= plan.limit.m /\ plan.limit.m <= 100

\* the order the sort token asks for: descending on the rest of the token
\* after a leading "-", ascending otherwise, newest first when absent
AskedField ==
  IF ~Present(query.sort) THEN FieldCreatedAt
  ELSE IF Head(query.sort.s) = "-" THEN Tail(query.sort.s) ELSE query.sort.s

AskedDescending == ~Present(query.sort) \/ Head(query.sort.s) = "-"

AskedOrder(o) ==
  \A i, j \in DOMAIN o :
    i < j =>
      LET a == SortKey(products[o[i]], AskedField)
          b == SortKey(products[o[j]], AskedField)
      IN  IF AskedDescending THEN NumLe(b, a) ELSE NumLe(a, b)

\* C8: for a valid page P >= 1 and limit L >= 1, the items returned are
\* the elements at positions (P-1)*L+1 .. P*L of the matching products in
\* the order the sort token asks for; at most L items are returned.
C8_PageOfSortedResult ==
  (response.status = "OK" /\ ValidCount(query.page) /\ ValidCount(query.limit)) =>
    LET P == IF Present(query.page) THEN NatOf(query.page) ELSE 1
        L == IF Present(query.limit) THEN NatOf(query.limit) ELSE 12
        S == Matching(plan.filter)
    IN  /\ Len(response.items) <= L
        /\ \E o \in [1 .. Cardinality(S) -> S] :
             /\ \A i, j \in DOMAIN o : i # j => o[i] # o[j]
             /\ AskedOrder(o)
             /\ response.items =
                  SubSeq(o, (P - 1) * L + 1, Min2(Cardinality(S), P * L))

C8_Witness ==
  /\ response.status = "OK"
  /\ query.page = JStr(<<"2">>) /\ query.limit = JStr(<<"1">>)
  /\ query.sort = JStr(<<"-">> \o FieldPrice)
  /\ Len(response.items) = 1
  /\ Cardinality(Matching(plan.filter)) >= 3

\* s contains w, letter case ignored
Contains(s, w) ==
  \E i \in 1 .. Len(s) - Len(w) + 1 :
    \A k \in 1 .. Len(w) : Lower(s[i + k - 1]) = Lower(w[k])

\* C9: every item returned satisfies every supplied predicate (category,
\* brand as a case-insensitive substring, featured, status, inclusive price
\* bounds on price), and has status active when status is omitted.
C9_EveryPredicateHolds ==
  response.status = "OK" =>
    \A n \in 1 .. Len(response.items) :
      LET item == products[response.items[n]]
      IN  /\ Present(query.category) => item.category = query.category
          /\ Present(query.brand) => Contains(item.brand.s, query.brand.s)
          /\ Present(query.featured) =>
               item.featured = JBool(query.featured = StrTrue)
          /\ item.status = IF Present(query.status) THEN query.status ELSE StrActive
          /\ Numeral(query.minPrice) => NumLe(ToNumber(query.minPrice), item.price)
          /\ Numeral(query.maxPrice) => NumLe(item.price, ToNumber(query.maxPrice))

=============================================================================
